---- MODULE Spec2Model ----
(***************************************************************************)
(* ProcessWords and ProcessWordsFaster (words.go) run over a heap of       *)
(* backing arrays, driven by the benchmark loops of the README.            *)
(*                                                                         *)
(* A slice is a header [ptr, len, cap] over an array of the heap; make and *)
(* append are modelled at that level, so that growth, copying, aliasing    *)
(* and allocation events are visible.  Each call keeps its own locals      *)
(* (pc, i, words); the heap is the one shared store.                       *)
(***************************************************************************)
EXTENDS Integers, Sequences, FiniteSets, TLC

\* Longest input slice of the sequential benchmark run.
MaxLen == 4
\* Largest b.N the benchmark harness picks.
MaxIter == 2
\* Longest input slice of each of the concurrent calls.
ConcMaxLen == 3

VARIABLES
  heap,      \* address -> backing array (a sequence of cells, length = capacity)
  nalloc,    \* per call: arrays allocated so far (names the next fresh address)
  rawWords,  \* per call: the slice header of the input
  fn,        \* per call: which function the benchmark invokes
  bN,        \* per call: b.N, the invocations the benchmark loop makes
  sched,     \* "seq": benchmarks run one after the other; "conc": calls interleave
  pc,        \* per call: "bench", "make", "range", "done"
  i,         \* per call: the range loop's index
  words,     \* per call: the slice header of the local `words`
  ret,       \* per call: the slice header last returned
  iter,      \* per call: invocations completed
  allocs,    \* per call: backing-store allocations of the current invocation
  grows,     \* per call: appends of the current invocation that reallocated
  appends,   \* per call: appends of the current invocation
  in0,       \* per call: the input's contents before the first invocation
  prevOut    \* per call: the contents returned by the previous invocation

vars == <<heap, nalloc, rawWords, fn, bN, sched, pc, i, words, ret, iter,
          allocs, grows, appends, in0, prevOut>>

----------------------------------------------------------------------------
(* Text *)

\* The sample of words inputs are built from: empty, lower case, upper case,
\* mixed with a rune that has no case.
WordSample == {<<>>, <<"a">>, <<"A">>, <<"b", "1">>}

\* The words the concurrent callers' inputs are built from.
ConcWordSample == {<<"a">>, <<"b", "1">>}

Inputs(n) == UNION {[1..m -> WordSample] : m \in 0..n}

ConcInputs(n) == UNION {[1..m -> ConcWordSample] : m \in 0..n}

\* unicode.ToUpper on one rune.
ToUpperRune(r) ==
  CASE r = "a" -> "A"
    [] r = "b" -> "B"
    [] OTHER -> r

\* strings.ToUpper: maps every rune, keeps the length and the order.
ToUpper(s) == [k \in 1..Len(s) |-> ToUpperRune(s[k])]

\* process that forgets the transformation.
processIdentity(word) == word

\* process: "simulate some sort of processing".
process(word) == ToUpper(word)

\* Word{w, idx} with the position counted from one.
WordOneBased(w, idx) == [word |-> w, index |-> idx + 1]

\* The composite literal Word{w, idx}.
Word(w, idx) == [word |-> w, index |-> idx]

\* The zero value of Word, which make fills a fresh array with.
ZeroWord == [word |-> <<>>, index |-> 0]

----------------------------------------------------------------------------
(* Slices over the heap *)

Fns == {"ProcessWords", "ProcessWordsFaster"}

\* The pointer of a slice that has no backing array.
NilPtr == <<0, 0>>

NilSlice == [ptr |-> NilPtr, len |-> 0, cap |-> 0]

\* The package-level address a buffer shared between calls would live at.
SharedBuf == <<0, 1>>

\* The heap h with a fresh array arr at address a.
mallocgc(h, a, arr) == [x \in (DOMAIN h) \cup {a} |-> IF x = a THEN arr ELSE h[x]]

\* The elements s[0:len(s)].
Contents(h, s) == IF s.len = 0 THEN <<>> ELSE [k \in 1..s.len |-> h[s.ptr][k]]

\* make([]Word, len, cap) with the buffer shared between the calls.
makesliceShared(h, a, len, cap) ==
  IF cap = 0
    THEN [heap |-> h, slice |-> NilSlice, allocs |-> 0]
    ELSE IF SharedBuf \in DOMAIN h /\ Len(h[SharedBuf]) >= cap
      THEN [heap |-> h,
            slice |-> [ptr |-> SharedBuf, len |-> len, cap |-> cap],
            allocs |-> 1]
      ELSE [heap |-> mallocgc(h, SharedBuf, [k \in 1..cap |-> ZeroWord]),
            slice |-> [ptr |-> SharedBuf, len |-> len, cap |-> cap],
            allocs |-> 1]

\* make([]Word, len, cap): with capacity 0 no backing array exists yet and
\* nothing is allocated; otherwise one zeroed array of cap cells.
makeslice(h, a, len, cap) ==
  IF cap = 0
    THEN [heap |-> h, slice |-> NilSlice, allocs |-> 0]
    ELSE [heap |-> mallocgc(h, a, [k \in 1..cap |-> ZeroWord]),
          slice |-> [ptr |-> a, len |-> len, cap |-> cap],
          allocs |-> 1]

\* Growth by one cell at a time.
growsliceByOne(oldCap) == oldCap + 1

\* The capacity append grows a full array to: 1 from nothing, then doubling.
growslice(oldCap) == IF oldCap = 0 THEN 1 ELSE 2 * oldCap

\* append that moves to a new array on every call, room or not.
appendAlwaysCopy(h, a, s, x) ==
  LET nc  == IF s.len < s.cap THEN s.cap ELSE growslice(s.cap)
      arr == [k \in 1..nc |->
                IF k <= s.len THEN h[s.ptr][k]
                ELSE IF k = s.len + 1 THEN x ELSE ZeroWord]
  IN  [heap |-> mallocgc(h, a, arr),
       slice |-> [ptr |-> a, len |-> s.len + 1, cap |-> nc],
       allocs |-> 1]

\* append that forgets to copy the old elements into the grown array.
appendNoCopy(h, a, s, x) ==
  IF s.len < s.cap
    THEN [heap |-> [h EXCEPT ![s.ptr][s.len + 1] = x],
          slice |-> [s EXCEPT !.len = s.len + 1],
          allocs |-> 0]
    ELSE LET nc == growslice(s.cap)
             arr == [k \in 1..nc |-> IF k = s.len + 1 THEN x ELSE ZeroWord]
         IN  [heap |-> mallocgc(h, a, arr),
              slice |-> [ptr |-> a, len |-> s.len + 1, cap |-> nc],
              allocs |-> 1]

\* append(s, x): writes in place while there is room; otherwise allocates a
\* larger array at the fresh address a, copies the old elements, then adds x.
append(h, a, s, x) ==
  IF s.len < s.cap
    THEN [heap |-> [h EXCEPT ![s.ptr][s.len + 1] = x],
          slice |-> [s EXCEPT !.len = s.len + 1],
          allocs |-> 0]
    ELSE LET nc == growslice(s.cap)
             arr == [k \in 1..nc |->
                       IF k <= s.len THEN h[s.ptr][k]
                       ELSE IF k = s.len + 1 THEN x ELSE ZeroWord]
         IN  [heap |-> mallocgc(h, a, arr),
              slice |-> [ptr |-> a, len |-> s.len + 1, cap |-> nc],
              allocs |-> 1]

----------------------------------------------------------------------------
(* The two functions, statement by statement *)

\* words := make([]Word, 0)
ProcessWords_make(h, a, rw) == makeslice(h, a, 0, 0)

\* make([]Word, len(rawWords)): length given where the capacity was meant.
ProcessWordsFaster_makeLen(h, a, rw) == makeslice(h, a, rw.len, rw.len)

\* make([]Word, 0): the capacity left out.
ProcessWordsFaster_makeNoCap(h, a, rw) == makeslice(h, a, 0, 0)

\* words := make([]Word, 0, len(rawWords))
ProcessWordsFaster_make(h, a, rw) == makeslice(h, a, 0, rw.len)

\* The range loop stopping one element early.
rangeDoneEarly(rw, idx) == idx >= rw.len - 1

\* The range loop is over once the index has passed the last element.
rangeDone(rw, idx) == idx >= rw.len

\* The loop body storing the processed word back into the input as well.
bodyInPlace(h, a, rw, s, idx) ==
  LET w  == h[rw.ptr][idx + 1]
      h2 == [h EXCEPT ![rw.ptr][idx + 1] = process(w)]
  IN  append(h2, a, s, Word(process(w), idx))

\* The loop body skipping empty words.
bodySkipEmpty(h, a, rw, s, idx) ==
  LET w == h[rw.ptr][idx + 1]
  IN  IF w = <<>>
        THEN [heap |-> h, slice |-> s, allocs |-> 0]
        ELSE append(h, a, s, Word(process(w), idx))

\* words = append(words, Word{process(w), i}) with w = rawWords[i]
body(h, a, rw, s, idx) ==
  LET w == h[rw.ptr][idx + 1]
  IN  append(h, a, s, Word(process(w), idx))

\* The address the allocator hands call c next: fresh, never handed out before.
newobject(c) == <<c, nalloc[c] + 1>>

Calls == DOMAIN pc

\* The benchmark loop invokes the function once more.
Call(c) ==
  /\ pc[c] = "bench"
  /\ iter[c] < bN[c]
  /\ sched = "seq" => \A d \in Calls : d < c => pc[d] = "done"
  /\ pc' = [pc EXCEPT ![c] = "make"]
  /\ i' = [i EXCEPT ![c] = 0]
  /\ words' = [words EXCEPT ![c] = NilSlice]
  /\ allocs' = [allocs EXCEPT ![c] = 0]
  /\ grows' = [grows EXCEPT ![c] = 0]
  /\ appends' = [appends EXCEPT ![c] = 0]
  /\ UNCHANGED <<heap, nalloc, rawWords, fn, bN, sched, ret, iter, in0, prevOut>>

Make(c, r) ==
  /\ heap' = r.heap
  /\ nalloc' = [nalloc EXCEPT ![c] = @ + r.allocs]
  /\ words' = [words EXCEPT ![c] = r.slice]
  /\ allocs' = [allocs EXCEPT ![c] = @ + r.allocs]
  /\ pc' = [pc EXCEPT ![c] = "range"]
  /\ UNCHANGED <<rawWords, fn, bN, sched, i, ret, iter, grows, appends, in0, prevOut>>

ProcessWords_13(c) ==
  /\ pc[c] = "make"
  /\ fn[c] = "ProcessWords"
  /\ Make(c, ProcessWords_make(heap, newobject(c), rawWords[c]))

ProcessWordsFaster_22(c) ==
  /\ pc[c] = "make"
  /\ fn[c] = "ProcessWordsFaster"
  /\ Make(c, ProcessWordsFaster_make(heap, newobject(c), rawWords[c]))

\* One iteration of the range loop (lines 14-16 and 23-25).
LoopBody(c) ==
  /\ pc[c] = "range"
  /\ ~rangeDone(rawWords[c], i[c])
  /\ LET r == body(heap, newobject(c), rawWords[c], words[c], i[c])
     IN  /\ heap' = r.heap
         /\ nalloc' = [nalloc EXCEPT ![c] = @ + r.allocs]
         /\ words' = [words EXCEPT ![c] = r.slice]
         /\ allocs' = [allocs EXCEPT ![c] = @ + r.allocs]
         /\ grows' = [grows EXCEPT ![c] = @ + r.allocs]
  /\ appends' = [appends EXCEPT ![c] = @ + 1]
  /\ i' = [i EXCEPT ![c] = @ + 1]
  /\ UNCHANGED <<rawWords, fn, bN, sched, pc, ret, iter, in0, prevOut>>

\* return words
Return(c) ==
  /\ pc[c] = "range"
  /\ rangeDone(rawWords[c], i[c])
  /\ ret' = [ret EXCEPT ![c] = words[c]]
  /\ prevOut' = [prevOut EXCEPT ![c] = Contents(heap, ret[c])]
  /\ iter' = [iter EXCEPT ![c] = @ + 1]
  /\ pc' = [pc EXCEPT ![c] = "bench"]
  /\ UNCHANGED <<heap, nalloc, rawWords, fn, bN, sched, i, words, allocs, grows,
                 appends, in0>>

\* The benchmark loop ends after b.N invocations.
BenchEnd(c) ==
  /\ pc[c] = "bench"
  /\ iter[c] = bN[c]
  /\ pc' = [pc EXCEPT ![c] = "done"]
  /\ UNCHANGED <<heap, nalloc, rawWords, fn, bN, sched, i, words, ret, iter,
                 allocs, grows, appends, in0, prevOut>>

\* The input slice of call c: strings.Split hands back a slice with cap = len.
InputSlice(c, S) == [ptr |-> <<c, 0>>, len |-> Len(S), cap |-> Len(S)]

InitLocals(cs) ==
  /\ nalloc = [c \in cs |-> 0]
  /\ pc = [c \in cs |-> "bench"]
  /\ i = [c \in cs |-> 0]
  /\ words = [c \in cs |-> NilSlice]
  /\ ret = [c \in cs |-> NilSlice]
  /\ iter = [c \in cs |-> 0]
  /\ allocs = [c \in cs |-> 0]
  /\ grows = [c \in cs |-> 0]
  /\ appends = [c \in cs |-> 0]
  /\ prevOut = [c \in cs |-> <<>>]

\* go test -bench: BenchmarkProcessWords, then BenchmarkProcessWordsFaster,
\* each over its own split of the same book.
Init ==
  \E S \in Inputs(MaxLen), n \in 1..MaxIter :
    /\ heap = [a \in {<<1, 0>>, <<2, 0>>} |-> S]
    /\ rawWords = [c \in {1, 2} |-> InputSlice(c, S)]
    /\ in0 = [c \in {1, 2} |-> S]
    /\ fn = [c \in {1, 2} |-> IF c = 1 THEN "ProcessWords" ELSE "ProcessWordsFaster"]
    /\ bN = [c \in {1, 2} |-> n]
    /\ sched = "seq"
    /\ InitLocals({1, 2})

\* Two callers, each invoking one of the functions once on its own input.
InitConc ==
  \E S1 \in ConcInputs(ConcMaxLen), S2 \in ConcInputs(ConcMaxLen), f \in [{1, 2} -> Fns] :
    /\ heap = [a \in {<<1, 0>>, <<2, 0>>} |-> IF a[1] = 1 THEN S1 ELSE S2]
    /\ rawWords = [c \in {1, 2} |-> InputSlice(c, IF c = 1 THEN S1 ELSE S2)]
    /\ in0 = [c \in {1, 2} |-> IF c = 1 THEN S1 ELSE S2]
    /\ fn = f
    /\ bN = [c \in {1, 2} |-> 1]
    /\ sched = "conc"
    /\ InitLocals({1, 2})

Next ==
  \E c \in Calls :
    \/ Call(c)
    \/ ProcessWords_13(c)
    \/ ProcessWordsFaster_22(c)
    \/ LoopBody(c)
    \/ Return(c)
    \/ BenchEnd(c)

Spec == Init /\ [][Next]_vars

SpecConc == InitConc /\ [][Next]_vars

----------------------------------------------------------------------------
(* Properties *)

\* Call c has returned from an invocation and has not started the next.
Returned(c) == iter[c] > 0 /\ pc[c] \in {"bench", "done"}

\* The sequence call c last returned.
Out(c) == Contents(heap, ret[c])

\* Call c was given at least n words.
InputAtLeast(c, n) == rawWords[c].len >= n

\* The least k with 2^k >= n.
CeilLog2(n) == CHOOSE k \in 0..n : 2^k >= n /\ (k = 0 \/ 2^(k - 1) < n)

\* C1: on the same input, ProcessWords (benchmark 1) and ProcessWordsFaster
\* (benchmark 2) return identical sequences: same length, same word and same
\* index at every position.
C1_SameOutput ==
  (Returned(1) /\ Returned(2)) =>
    /\ Len(Out(1)) = Len(Out(2))
    /\ \A k \in 1..Len(Out(1)) :
         /\ Out(1)[k].word = Out(2)[k].word
         /\ Out(1)[k].index = Out(2)[k].index

C1_Witness ==
  /\ Returned(1) /\ Returned(2)
  /\ fn[1] = "ProcessWords" /\ fn[2] = "ProcessWordsFaster"
  /\ in0[1] = in0[2]
  /\ InputAtLeast(1, 3)

\* C2: the record at position i of either function's result has index i and
\* word uppercase(S[i]); positions are strictly increasing.
C2_Records ==
  \A c \in Calls : Returned(c) =>
    /\ \A k \in 1..Len(in0[c]) :
         /\ k \in DOMAIN Out(c)
         /\ Out(c)[k].index = k - 1
         /\ Len(Out(c)[k].word) = Len(in0[c][k])
         /\ \A j \in 1..Len(in0[c][k]) : Out(c)[k].word[j] = ToUpperRune(in0[c][k][j])
    /\ \A j, k \in DOMAIN Out(c) : j < k => Out(c)[j].index < Out(c)[k].index

C2_Witness ==
  \E c \in Calls :
    /\ Returned(c)
    /\ InputAtLeast(c, 2)
    /\ in0[c][2] = <<"b", "1">>
    /\ Out(c)[2] = [word |-> <<"B", "1">>, index |-> 1]

\* C3: the result is exactly as long as the input (empty for the empty input)
\* and the loop ends after exactly that many appends.
C3_Length ==
  \A c \in Calls : Returned(c) =>
    /\ ret[c].len = Len(in0[c])
    /\ Len(Out(c)) = Len(in0[c])
    /\ appends[c] = Len(in0[c])
    /\ i[c] = Len(in0[c])

C3_Witness ==
  \A c \in Calls :
    /\ Returned(c)
    /\ Len(in0[c]) = 3
    /\ appends[c] = 3
    /\ Len(Out(c)) = 3

\* C4: in ProcessWordsFaster the capacity of words is len(rawWords) from make
\* to return, every append finds length below capacity, and none reallocates.
C4_NoGrowth ==
  \A c \in Calls : (fn[c] = "ProcessWordsFaster" /\ pc[c] = "range") =>
    /\ words[c].cap = rawWords[c].len
    /\ words[c].len = i[c]
    /\ ~rangeDone(rawWords[c], i[c]) => words[c].len < words[c].cap
    /\ grows[c] = 0
    /\ words[c].cap > 0 => Len(heap[words[c].ptr]) = rawWords[c].len

C4_Witness ==
  \E c \in Calls :
    /\ fn[c] = "ProcessWordsFaster"
    /\ pc[c] = "range"
    /\ InputAtLeast(c, 3)
    /\ i[c] = rawWords[c].len

\* C5: for a non-empty input ProcessWordsFaster allocates the output's backing
\* store exactly once, whatever the length; ProcessWords allocates more than
\* once (for every input of two or more words).
C5_Allocations ==
  \A c \in Calls : Returned(c) =>
    /\ (fn[c] = "ProcessWordsFaster" /\ InputAtLeast(c, 1)) => allocs[c] = 1
    /\ (fn[c] = "ProcessWords" /\ InputAtLeast(c, 2)) => allocs[c] > 1

C5_Witness ==
  /\ Returned(1) /\ fn[1] = "ProcessWords" /\ allocs[1] = 3
  /\ Returned(2) /\ fn[2] = "ProcessWordsFaster" /\ allocs[2] = 1
  /\ InputAtLeast(2, 3)

\* C6: the input is never modified: at every step it has the length and the
\* elements it had before the first call, and a repeated call returns what
\* the call before it returned.
C6_InputUnchanged ==
  \A c \in Calls :
    /\ rawWords[c].len = Len(in0[c])
    /\ Contents(heap, rawWords[c]) = in0[c]
    /\ (Returned(c) /\ iter[c] >= 2) => Out(c) = prevOut[c]

C6_Witness ==
  \E c \in Calls :
    /\ Returned(c)
    /\ iter[c] = 2
    /\ InputAtLeast(c, 2)
    /\ in0[c][1] = <<"a">>
    /\ Out(c)[1].word = <<"A">>

\* The result of one invocation of f on input S run alone, on a heap that
\* holds nothing but S: the statements of the function, in order.
RECURSIVE RunLoop(_, _, _, _, _)
RunLoop(h, n, rw, s, idx) ==
  IF rangeDone(rw, idx)
    THEN Contents(h, s)
    ELSE LET r == body(h, <<1, n + 1>>, rw, s, idx)
         IN  RunLoop(r.heap, n + r.allocs, rw, r.slice, idx + 1)

RunAlone(f, S) ==
  LET h0 == [a \in {<<1, 0>>} |-> S]
      rw == InputSlice(1, S)
      m  == IF f = "ProcessWords"
              THEN ProcessWords_make(h0, <<1, 1>>, rw)
              ELSE ProcessWordsFaster_make(h0, <<1, 1>>, rw)
  IN  RunLoop(m.heap, m.allocs, rw, m.slice, 0)

\* Call c takes no step in the transition.
Idle(c) == pc'[c] = pc[c] /\ i'[c] = i[c]

\* C7: under every interleaving of two concurrent calls on independent inputs
\* each call returns what it returns when run alone, and a step of one call
\* leaves the other's loop state and output sequence as they were.
C7_Isolation ==
  /\ [](\A c \in Calls : Returned(c) => Out(c) = RunAlone(fn[c], in0[c]))
  /\ [][\A c \in Calls : Idle(c) =>
          /\ words'[c] = words[c]
          /\ ret'[c] = ret[c]
          /\ Contents(heap', words[c]) = Contents(heap, words[c])
          /\ Contents(heap', ret[c]) = Contents(heap, ret[c])]_vars

C7_Witness ==
  /\ sched = "conc"
  /\ pc[1] = "range" /\ pc[2] = "range"
  /\ i[1] = 2 /\ i[2] = 2
  /\ InputAtLeast(1, 3) /\ InputAtLeast(2, 3)
  /\ in0[1] # in0[2]

\* C8: no call ends in an error or with a partial result: a call that has
\* started can always take its next step, and the result it returns holds
\* exactly one record for every input element.
C8_NoErrorNoPartial ==
  \A c \in Calls :
    /\ pc[c] \in {"make", "range"} =>
         ENABLED (ProcessWords_13(c) \/ ProcessWordsFaster_22(c)
                    \/ LoopBody(c) \/ Return(c))
    /\ Returned(c) =>
         \A k \in 0..(Len(in0[c]) - 1) :
           Cardinality({j \in DOMAIN Out(c) : Out(c)[j].index = k}) = 1

C8_Witness ==
  \E c \in Calls :
    /\ Returned(c)
    /\ InputAtLeast(c, 3)
    /\ in0[c][2] = <<>>
    /\ Out(c)[2] = [word |-> <<>>, index |-> 1]

\* C9: ProcessWords starts from capacity 0; an append reallocates only when
\* length equals capacity; with capacity 1 on the first append and doubling
\* after it, an input of N >= 1 words costs at most ceil(log2 N) + 1
\* reallocations.
C9_LogGrowth ==
  /\ [](\A c \in Calls : fn[c] = "ProcessWords" =>
          /\ (pc[c] = "range" /\ i[c] = 0) => (words[c].cap = 0 /\ words[c].len = 0)
          /\ (Returned(c) /\ InputAtLeast(c, 1)) =>
               grows[c] <= CeilLog2(rawWords[c].len) + 1)
  /\ [][\A c \in Calls : grows'[c] > grows[c] => words[c].len = words[c].cap]_vars

C9_Witness ==
  \E c \in Calls :
    /\ fn[c] = "ProcessWords"
    /\ Returned(c)
    /\ rawWords[c].len = 4
    /\ grows[c] = 3
    /\ ret[c].cap = 4

\* C10: a record, once appended, keeps its value through every later append,
\* reallocating or not, until the call returns; after k iterations the output
\* holds exactly the first k records of the final result.
C10_RecordsStable ==
  /\ [](\A c \in Calls : pc[c] = "range" =>
          Contents(heap, words[c]) =
            [k \in 1..i[c] |-> [word |-> ToUpper(in0[c][k]), index |-> k - 1]])
  /\ [][\A c \in Calls : pc[c] = "range" =>
          LET old == Contents(heap, words[c])
              new == Contents(heap', words'[c])
          IN  /\ Len(new) >= Len(old)
              /\ \A k \in 1..Len(old) : new[k] = old[k]
              /\ pc'[c] = "bench" => Contents(heap', ret'[c]) = old]_vars

C10_Witness ==
  \E c \in Calls :
    /\ fn[c] = "ProcessWords"
    /\ pc[c] = "range"
    /\ i[c] = 3
    /\ grows[c] = 3
    /\ Contents(heap, words[c])[1] = [word |-> <<"A">>, index |-> 0]

====
